---- MODULE Spec2Model ----
(***************************************************************************)
(* User Manager (DB/LDAP aware): fastapi_user_manager/main.py.             *)
(*                                                                         *)
(* The model follows the two endpoints /user/search and /user/assign.      *)
(* Every request is a process that walks through the backend round trips   *)
(* of its handler: pc[p] is the position before the next round trip.       *)
(* The relational store (auth_user, auth_group, auth_user_groups,          *)
(* user_assignments) and the directory (entries, group member attribute)   *)
(* are the shared state.                                                   *)
(***************************************************************************)
EXTENDS Integers, Sequences, FiniteSets, TLC

\* ----------------------------------------------------------------- bounds
\* Largest value of the search endpoint's "limit" parameter that is tried.
MaxLimit == 2

\* ---------------------------------------------------------------- strings
NULL == "NULL"

\* The characters of every string of the model's vocabulary.
Chars ==
    [s \in {"alice", "bob", "li", "x", "zed", "1", "9", "cn=alice", "cn=bob", "",
            "a@x.com", "b@x.com", "Alice", "Bob", "A", "B", "Alice A", "admins",
            "s1"} |->
        CASE s = "alice"    -> <<"a", "l", "i", "c", "e">>
          [] s = "bob"      -> <<"b", "o", "b">>
          [] s = "li"       -> <<"l", "i">>
          [] s = "x"        -> <<"x">>
          [] s = "zed"      -> <<"z", "e", "d">>
          [] s = "1"        -> <<"1">>
          [] s = "9"        -> <<"9">>
          [] s = "cn=alice" -> <<"c", "n", "=", "a", "l", "i", "c", "e">>
          [] s = "cn=bob"   -> <<"c", "n", "=", "b", "o", "b">>
          [] s = ""         -> << >>
          [] s = "a@x.com"  -> <<"a", "@", "x", ".", "c", "o", "m">>
          [] s = "b@x.com"  -> <<"b", "@", "x", ".", "c", "o", "m">>
          [] s = "Alice"    -> <<"A", "l", "i", "c", "e">>
          [] s = "Bob"      -> <<"B", "o", "b">>
          [] s = "A"        -> <<"A">>
          [] s = "B"        -> <<"B">>
          [] s = "Alice A"  -> <<"A", "l", "i", "c", "e", " ", "A">>
          [] s = "admins"   -> <<"a", "d", "m", "i", "n", "s">>
          [] s = "s1"       -> <<"s", "1">>]

\* Case folding of one character (ILIKE and LDAP substring matches ignore case).
LowerChar(c) ==
    CASE c = "A" -> "a"
      [] c = "B" -> "b"
      [] OTHER -> c

Lower(cs) == [i \in 1..Len(cs) |-> LowerChar(cs[i])]

\* needle occurs in hay: the pattern %needle% of ILIKE, *needle* of an LDAP filter.
IsInfix(needle, hay) ==
    \E i \in 1..(Len(hay) - Len(needle) + 1) :
        SubSeq(hay, i, i + Len(needle) - 1) = needle

\* The pattern %q% (ILIKE) or *q* (LDAP filter) matches the characters cs,
\* ignoring case.
Contains(cs, q) == IsInfix(Lower(Chars[q]), Lower(cs))

\* Python's int(identifier): defined on the decimal strings only (ValueError else).
IsDecimal(s) == s \in {"1", "9"}

IntOf(s) ==
    CASE s = "1" -> 1
      [] s = "9" -> 9

\* The first n elements of a sequence (LIMIT n, size_limit=n).
Take(seq, n) == SubSeq(seq, 1, IF Len(seq) < n THEN Len(seq) ELSE n)

\* ------------------------------------------------------- the two stores
\* auth_user, in the order ORDER BY username returns it.
auth_user ==
    << [id |-> 1, username |-> "alice", email |-> "a@x.com",
        first_name |-> "Alice", last_name |-> "A"],
       [id |-> 2, username |-> "bob", email |-> "b@x.com",
        first_name |-> "Bob", last_name |-> "B"] >>

auth_group == << [id |-> 10, name |-> "admins"] >>

\* The directory's person entries, in the order the server returns them.
ldap_entries ==
    << [distinguishedName |-> "cn=alice", sAMAccountName |-> "alice", cn |-> "alice",
        mail |-> "a@x.com", givenName |-> "Alice", sn |-> "A"],
       [distinguishedName |-> "cn=bob", sAMAccountName |-> "bob", cn |-> "bob",
        mail |-> "b@x.com", givenName |-> "Bob", sn |-> "B"] >>

\* The directory's group entries (objectClass=group).
ldap_groups == << [entry_dn |-> "cn=admins", cn |-> "admins"] >>

\* Group names of the allow-list (LDAP_ALLOWED_GROUPS).
LDAP_ALLOWED_GROUPS == {"admins"}

UserIds == {auth_user[i].id : i \in 1..Len(auth_user)}
GroupIds == {auth_group[i].id : i \in 1..Len(auth_group)}
GroupDns == {ldap_groups[i].entry_dn : i \in 1..Len(ldap_groups)}

\* ------------------------------------------------------------ the requests
Identifiers == {"alice", "1", "9", "cn=alice", ""}
IdentifierTypes == {"id", "username", "dn"}
Actions == {"assign", "remove", "purge"}
TargetTypes == {"group", "study"}
Targets == {"admins", "s1", ""}
Queries == {"alice", "li", "x", "zed"}

AssignRequests ==
    [op : {"assign"}, identifier : Identifiers, identifier_type : IdentifierTypes,
     action : Actions, target_type : TargetTypes, target : Targets]

SearchRequests == [op : {"search"}, q : Queries, limit : 1..MaxLimit]

NoRequest == [op |-> "none"]

MemberRows == UserIds \X GroupIds
AssignRows == UserIds \X (TargetTypes \ {"group"}) \X Targets

Procs == {1, 2}

NoLocals ==
    [identifier |-> NULL, user_id |-> 0, group_id |-> 0, user_dn |-> NULL,
     group_dn |-> NULL, notExists |-> FALSE]

NoTxn == [kind |-> "none"]

VARIABLES
    LDAP_SERVER_AVAILABLE,  \* configuration flag, line 16
    LDAP_GROUP_FILTER,      \* configuration flag, line 17
    uniqueGroupEdge,        \* whether auth_user_groups carries a unique constraint
    auth_user_groups,       \* committed rows: MemberRows -> number of copies
    user_assignments,       \* committed rows: AssignRows -> number of copies
    assignmentTable,        \* whether the table user_assignments exists
    member,                 \* directory: group DN -> values of its member attribute
    pc,                     \* per request: the position in its handler
    req,                    \* per request: the request being handled
    loc,                    \* per request: the handler's local variables
    txn,                    \* per request: the uncommitted statement of its connection
    dbOpen,                 \* per request: relational connections it holds open
    ldapOpen,               \* per request: directory sessions it holds open
    contacted,              \* per request: the backends contacted so far
    stages,                 \* per request: the stages passed so far
    status,                 \* per request: the HTTP status returned, 0 while running
    result,                 \* per request: the users a search returned
    pre,                    \* per request: the stores as the request started
    repeatOf                \* per request: status of the identical previous request, 0 if none

config == <<LDAP_SERVER_AVAILABLE, LDAP_GROUP_FILTER, uniqueGroupEdge>>
store == <<auth_user_groups, user_assignments, assignmentTable, member>>
conns == <<dbOpen, ldapOpen>>
vars ==
    <<config, store, pc, req, loc, txn, conns, contacted, stages, status, result,
      pre, repeatOf>>

\* The stores as one value, for comparing before and after.
Stores ==
    [groups |-> auth_user_groups, assignments |-> user_assignments, member |-> member]

\* A slip in the condition of lines 231 and 243: "or" for "and".
DirectoryModeEitherFlag == LDAP_SERVER_AVAILABLE \/ LDAP_GROUP_FILTER

\* ------------------------------------------------------------ mode (231, 243)
DirectoryMode == LDAP_SERVER_AVAILABLE /\ LDAP_GROUP_FILTER

\* ------------------------------------------------------------ connections
\* A handler that closes at the end of the try body and not in a finally.
CloseUnlessRaised(n, raised) == IF raised THEN n ELSE n - 1

\* try/finally around every use of a connection: the connection that was open
\* (n of them held by the request) is closed whether or not the body raised.
CloseOnExit(n, raised) == n - 1

\* ----------------------------------------------------------------- Init
Init ==
    /\ LDAP_SERVER_AVAILABLE \in BOOLEAN
    /\ LDAP_GROUP_FILTER \in BOOLEAN
    /\ uniqueGroupEdge \in BOOLEAN
    /\ auth_user_groups = [r \in MemberRows |-> 0]
    /\ user_assignments = [r \in AssignRows |-> 0]
    /\ assignmentTable = FALSE
    /\ member = [g \in GroupDns |-> {}]
    /\ pc = [p \in Procs |-> "idle"]
    /\ req = [p \in Procs |-> NoRequest]
    /\ loc = [p \in Procs |-> NoLocals]
    /\ txn = [p \in Procs |-> NoTxn]
    /\ dbOpen = [p \in Procs |-> 0]
    /\ ldapOpen = [p \in Procs |-> 0]
    /\ contacted = [p \in Procs |-> {}]
    /\ stages = [p \in Procs |-> << >>]
    /\ status = [p \in Procs |-> 0]
    /\ result = [p \in Procs |-> << >>]
    /\ pre = [p \in Procs |-> Stores]
    /\ repeatOf = [p \in Procs |-> 0]

\* No request is being handled by p.
Idle(p) == pc[p] = "idle"

\* The request returns (or raises) with HTTP status code; trail is appended to
\* the stages it passed.
Return(p, code, trail) ==
    /\ pc' = [pc EXCEPT ![p] = "done"]
    /\ status' = [status EXCEPT ![p] = code]
    /\ stages' = [stages EXCEPT ![p] = @ \o trail]

\* The request goes on to position next; trail is appended to its stages.
Goto(p, next, trail) ==
    /\ pc' = [pc EXCEPT ![p] = next]
    /\ stages' = [stages EXCEPT ![p] = @ \o trail]
    /\ UNCHANGED status

\* A new request r enters its handler and runs to position first, having
\* set the locals and passed the stages of trail; code is its status so far.
Enter(p, r, first, code, trail, locals, rep) ==
    /\ req' = [req EXCEPT ![p] = r]
    /\ pc' = [pc EXCEPT ![p] = first]
    /\ loc' = [loc EXCEPT ![p] = locals]
    /\ contacted' = [contacted EXCEPT ![p] = {}]
    /\ stages' = [stages EXCEPT ![p] = trail]
    /\ status' = [status EXCEPT ![p] = code]
    /\ result' = [result EXCEPT ![p] = << >>]
    /\ pre' = [pre EXCEPT ![p] = Stores]
    /\ repeatOf' = [repeatOf EXCEPT ![p] = rep]
    /\ UNCHANGED <<config, store, txn, conns>>

\* ------------------------------------------------------ GET /user/search
\* user_search, lines 225-233: the flags pick the one backend that is searched.
UserSearch(p, r) ==
    /\ Idle(p)
    /\ Enter(p, r, IF DirectoryMode THEN "s_ldap" ELSE "s_db", 0, << >>, NoLocals, 0)

\* A row of auth_user as UserOut (line 75): the relational store sets no dn.
DbUserOut(row) ==
    [id |-> row.id, username |-> row.username, email |-> row.email,
     first_name |-> row.first_name, last_name |-> row.last_name, dn |-> NULL]

\* The WHERE clause of search_db_users, lines 68.
DbRowMatches(row, q) ==
    \/ Contains(Chars[row.username], q)
    \/ Contains(Chars[row.email], q)
    \/ Contains(Chars[row.first_name] \o <<" ">> \o Chars[row.last_name], q)

\* search_db_users, lines 59-77, without the connection.
search_db_users(q, limit) ==
    LET Hit(row) == DbRowMatches(row, q)
        rows == Take(SelectSeq(auth_user, Hit), limit)
    IN  [i \in 1..Len(rows) |-> DbUserOut(rows[i])]

\* A directory entry as UserOut (lines 186-192): no numeric id.
LdapUserOut(e) ==
    [id |-> NULL, username |-> e.sAMAccountName, email |-> e.mail,
     first_name |-> e.givenName, last_name |-> e.sn, dn |-> e.distinguishedName]

\* The filter of search_ldap, line 181.
LdapEntryMatches(e, q) ==
    \/ Contains(Chars[e.cn], q)
    \/ Contains(Chars[e.sAMAccountName], q)
    \/ Contains(Chars[e.mail], q)

\* search_ldap, lines 178-195, without the session: every entry the filter
\* matches is returned, up to size_limit.
search_ldap(q, limit) ==
    LET Hit(e) == LdapEntryMatches(e, q)
        entries == Take(SelectSeq(ldap_entries, Hit), limit)
    IN  [i \in 1..Len(entries) |-> LdapUserOut(entries[i])]

\* search_db_users as one round trip: connect, query, close in the finally.
SearchDb(p) ==
    /\ pc[p] = "s_db"
    /\ contacted' = [contacted EXCEPT ![p] = @ \cup {"db"}]
    /\ dbOpen' = [dbOpen EXCEPT ![p] = CloseOnExit(@ + 1, FALSE)]
    /\ result' = [result EXCEPT ![p] = search_db_users(req[p].q, req[p].limit)]
    /\ Return(p, 200, << >>)
    /\ UNCHANGED <<config, store, req, loc, txn, ldapOpen, pre, repeatOf>>

\* search_ldap as one round trip: bind, search, unbind in the finally.
SearchLdap(p) ==
    /\ pc[p] = "s_ldap"
    /\ contacted' = [contacted EXCEPT ![p] = @ \cup {"ldap"}]
    /\ ldapOpen' = [ldapOpen EXCEPT ![p] = CloseOnExit(@ + 1, FALSE)]
    /\ result' = [result EXCEPT ![p] = search_ldap(req[p].q, req[p].limit)]
    /\ Return(p, 200, << >>)
    /\ UNCHANGED <<config, store, req, loc, txn, dbOpen, pre, repeatOf>>

\* ------------------------------------------------------ POST /user/assign
\* The directory flow without the check of line 245.
AnyTargetSupported(target_type) == TRUE

\* Line 245: the directory flow supports group targets only.
LdapTargetSupported(target_type) == target_type = "group"

\* user_assign, lines 236-284, up to its first backend call: the position the
\* request r reaches, or "reject" for the HTTP 400 of line 246.
AssignEntry(r) ==
    IF DirectoryMode
    THEN IF ~LdapTargetSupported(r.target_type) THEN "reject"
         ELSE IF r.identifier_type = "dn" THEN "l_group"
         ELSE "l_user"
    ELSE IF r.target_type = "group"
         THEN IF r.identifier_type = "id" THEN "conv" ELSE "g_user"
         ELSE "x_ensure"

\* The locals user_assign has set when it reaches its first backend call.
AssignLocals(r) ==
    CASE AssignEntry(r) = "l_group" -> [NoLocals EXCEPT !.user_dn = r.identifier]
      [] AssignEntry(r) = "g_user"  -> [NoLocals EXCEPT !.identifier = r.identifier]
      [] OTHER -> NoLocals

UserAssign(p, r, rep) ==
    /\ pc[p] \in {"idle", "done"}
    /\ IF AssignEntry(r) = "reject"
       THEN Enter(p, r, "done", 400, <<"Failed">>, NoLocals, rep)
       ELSE Enter(p, r, AssignEntry(r), 0,
                  IF AssignEntry(r) = "l_group" THEN <<"IdentifierResolved">> ELSE << >>,
                  AssignLocals(r), rep)

\* A client sends the request it sent last once more.
RepeatAssign(p) ==
    /\ pc[p] = "done"
    /\ req[p].op = "assign"
    /\ UserAssign(p, req[p], status[p])

\* ------------------------------------------------- the relational statements
\* SELECT ... FROM auth_user WHERE id = n / WHERE username = name (first row or none).
UsersById(n) == SelectSeq(auth_user, LAMBDA row : row.id = n)
UsersByName(name) == SelectSeq(auth_user, LAMBDA row : row.username = name)
GroupsByName(name) == SelectSeq(auth_group, LAMBDA row : row.name = name)

\* An INSERT without its WHERE NOT EXISTS guard.
NotExistsUnguarded(table, row) == TRUE

\* A DELETE without its WHERE clause.
DeleteEveryRow(table, row) == [r \in DOMAIN table |-> 0]

\* WHERE NOT EXISTS (SELECT 1 FROM table WHERE <row>), lines 101-103 and 155-157.
NotExists(table, row) == table[row] = 0

\* INSERT of one row; DELETE ... WHERE <row>, lines 109 and 163.
InsertRow(table, row) == [table EXCEPT ![row] = @ + 1]
DeleteRows(table, row) == [table EXCEPT ![row] = 0]

\* Another connection holds an uncommitted insert of the same row.
PendingElsewhere(p, tname, row) ==
    \E o \in Procs \ {p} : txn[o] = [kind |-> "ins", table |-> tname, row |-> row]

\* What the store answers to an INSERT of row into a table that holds `table`
\* committed: under a unique constraint a committed copy is a unique violation
\* and an uncommitted one makes the statement wait for the other transaction.
InsertOutcome(p, tname, table, row, unique) ==
    IF unique /\ table[row] > 0 THEN "error"
    ELSE IF unique /\ PendingElsewhere(p, tname, row) THEN "wait"
    ELSE "insert"

\* conn.commit(): the connection's statement takes effect on the table tname.
Committed(table, tname, t) ==
    IF t.kind = "ins" /\ t.table = tname THEN InsertRow(table, t.row)
    ELSE IF t.kind = "del" /\ t.table = tname THEN DeleteRows(table, t.row)
    ELSE table

\* ------------------------------------------------- relational, group target
\* Lines 267-278: an id is converted to the username on a connection of its own.
ConvertId(p) ==
    /\ pc[p] = "conv"
    /\ contacted' = [contacted EXCEPT ![p] = @ \cup {"db"}]
    /\ LET raised == ~IsDecimal(req[p].identifier)
           rows == IF raised THEN << >> ELSE UsersById(IntOf(req[p].identifier))
       IN  /\ dbOpen' = [dbOpen EXCEPT ![p] = CloseOnExit(@ + 1, raised \/ rows = << >>)]
           /\ IF raised THEN Return(p, 500, <<"Failed">>) /\ UNCHANGED loc
              ELSE IF rows = << >> THEN Return(p, 404, <<"Failed">>) /\ UNCHANGED loc
              ELSE /\ Goto(p, "g_user", << >>)
                   /\ loc' = [loc EXCEPT ![p].identifier = rows[1].username]
    /\ UNCHANGED <<config, store, req, txn, ldapOpen, result, pre, repeatOf>>

\* assign_db_group, lines 80-88: connect and find the user by username.
GroupFindUser(p) ==
    /\ pc[p] = "g_user"
    /\ contacted' = [contacted EXCEPT ![p] = @ \cup {"db"}]
    /\ LET u == UsersByName(loc[p].identifier)
       IN  IF u = << >>
           THEN /\ Return(p, 404, <<"Failed">>)
                /\ dbOpen' = [dbOpen EXCEPT ![p] = CloseOnExit(@ + 1, TRUE)]
                /\ UNCHANGED loc
           ELSE /\ Goto(p, "g_group", <<"IdentifierResolved">>)
                /\ dbOpen' = [dbOpen EXCEPT ![p] = @ + 1]
                /\ loc' = [loc EXCEPT ![p].user_id = u[1].id]
    /\ UNCHANGED <<config, store, req, txn, ldapOpen, result, pre, repeatOf>>

\* assign_db_group, lines 89-94: find the group by name.
GroupFindGroup(p) ==
    /\ pc[p] = "g_group"
    /\ LET g == GroupsByName(req[p].target)
       IN  IF g = << >>
           THEN /\ Return(p, 404, <<"Failed">>)
                /\ dbOpen' = [dbOpen EXCEPT ![p] = CloseOnExit(@, TRUE)]
                /\ UNCHANGED loc
           ELSE /\ Goto(p, "g_check", <<"TargetResolved">>)
                /\ loc' = [loc EXCEPT ![p].group_id = g[1].id]
                /\ UNCHANGED dbOpen
    /\ UNCHANGED <<config, store, req, txn, ldapOpen, contacted, result, pre, repeatOf>>

\* assign_db_group, lines 95-111: "assign" evaluates the NOT EXISTS guard of its
\* INSERT on the committed rows; every other action is the DELETE.
GroupStatement(p) ==
    /\ pc[p] = "g_check"
    /\ LET row == <<loc[p].user_id, loc[p].group_id>>
       IN  IF req[p].action = "assign"
           THEN /\ loc' = [loc EXCEPT ![p].notExists = NotExists(auth_user_groups, row)]
                /\ Goto(p, "g_insert", << >>)
                /\ UNCHANGED txn
           ELSE /\ txn' = [txn EXCEPT ![p] = [kind |-> "del", table |-> "groups", row |-> row]]
                /\ Goto(p, "g_commit", <<"Mutated">>)
                /\ UNCHANGED loc
    /\ UNCHANGED <<config, store, req, conns, contacted, result, pre, repeatOf>>

\* assign_db_group, lines 97-106: the INSERT of the row the guard let through.
GroupInsert(p) ==
    /\ pc[p] = "g_insert"
    /\ LET row == <<loc[p].user_id, loc[p].group_id>>
           out == IF loc[p].notExists
                  THEN InsertOutcome(p, "groups", auth_user_groups, row, uniqueGroupEdge)
                  ELSE "skip"
       IN  /\ out # "wait"
           /\ IF out = "error"
              THEN /\ Return(p, 500, <<"Failed">>)
                   /\ dbOpen' = [dbOpen EXCEPT ![p] = CloseOnExit(@, TRUE)]
                   /\ UNCHANGED txn
              ELSE /\ Goto(p, "g_commit", <<"Mutated">>)
                   /\ txn' = [txn EXCEPT ![p] =
                                IF out = "insert"
                                THEN [kind |-> "ins", table |-> "groups", row |-> row]
                                ELSE NoTxn]
                   /\ UNCHANGED dbOpen
    /\ UNCHANGED <<config, store, req, loc, ldapOpen, contacted, result, pre, repeatOf>>

\* assign_db_group, lines 112-114, and lines 279-280: commit, close, "ok".
GroupCommit(p) ==
    /\ pc[p] = "g_commit"
    /\ auth_user_groups' = Committed(auth_user_groups, "groups", txn[p])
    /\ txn' = [txn EXCEPT ![p] = NoTxn]
    /\ dbOpen' = [dbOpen EXCEPT ![p] = CloseOnExit(@, FALSE)]
    /\ Return(p, 200, <<"Acknowledged">>)
    /\ UNCHANGED <<config, user_assignments, assignmentTable, member, req, loc,
                   ldapOpen, contacted, result, pre, repeatOf>>

\* ----------------------------------------------- relational, generic target
\* ensure_assignment_table_exists, lines 116-134: CREATE TABLE IF NOT EXISTS on
\* a connection of its own.
EnsureTable(p) ==
    /\ pc[p] = "x_ensure"
    /\ contacted' = [contacted EXCEPT ![p] = @ \cup {"db"}]
    /\ assignmentTable' = TRUE
    /\ dbOpen' = [dbOpen EXCEPT ![p] = CloseOnExit(@ + 1, FALSE)]
    /\ Goto(p, "x_user", << >>)
    /\ UNCHANGED <<config, auth_user_groups, user_assignments, member, req, loc, txn,
                   ldapOpen, result, pre, repeatOf>>

\* assign_db_generic, lines 139-149: connect and find the user, by id when
\* identifier_type is "id" and by username for every other identifier_type.
GenericFindUser(p) ==
    /\ pc[p] = "x_user"
    /\ LET byId == req[p].identifier_type = "id"
           raised == byId /\ ~IsDecimal(req[p].identifier)
           r == IF raised THEN << >>
                ELSE IF byId THEN UsersById(IntOf(req[p].identifier))
                ELSE UsersByName(req[p].identifier)
       IN  IF raised \/ r = << >>
           THEN /\ Return(p, IF raised THEN 500 ELSE 404, <<"Failed">>)
                /\ dbOpen' = [dbOpen EXCEPT ![p] = CloseOnExit(@ + 1, TRUE)]
                /\ UNCHANGED loc
           ELSE /\ Goto(p, "x_check", <<"IdentifierResolved">>)
                /\ dbOpen' = [dbOpen EXCEPT ![p] = @ + 1]
                /\ loc' = [loc EXCEPT ![p].user_id = r[1].id]
    /\ UNCHANGED <<config, store, req, txn, ldapOpen, contacted, result, pre, repeatOf>>

\* assign_db_generic, lines 150-165: "assign" evaluates the guard of its INSERT,
\* "remove" is the DELETE, and any other action issues no statement at all.
GenericStatement(p) ==
    /\ pc[p] = "x_check"
    /\ LET row == <<loc[p].user_id, req[p].target_type, req[p].target>>
       IN  CASE req[p].action = "assign" ->
                 /\ loc' = [loc EXCEPT ![p].notExists = NotExists(user_assignments, row)]
                 /\ Goto(p, "x_insert", << >>)
                 /\ UNCHANGED txn
             [] req[p].action = "remove" ->
                 /\ txn' = [txn EXCEPT ![p] =
                              [kind |-> "del", table |-> "assignments", row |-> row]]
                 /\ Goto(p, "x_commit", <<"Mutated">>)
                 /\ UNCHANGED loc
             [] OTHER ->
                 /\ Goto(p, "x_commit", << >>)
                 /\ UNCHANGED <<loc, txn>>
    /\ UNCHANGED <<config, store, req, conns, contacted, result, pre, repeatOf>>

\* assign_db_generic, lines 151-160: the INSERT of the row the guard let
\* through; UNIQUE(user_id, target_type, target_id) is on the table (line 128).
GenericInsert(p) ==
    /\ pc[p] = "x_insert"
    /\ LET row == <<loc[p].user_id, req[p].target_type, req[p].target>>
           out == IF loc[p].notExists
                  THEN InsertOutcome(p, "assignments", user_assignments, row, TRUE)
                  ELSE "skip"
       IN  /\ out # "wait"
           /\ IF out = "error"
              THEN /\ Return(p, 500, <<"Failed">>)
                   /\ dbOpen' = [dbOpen EXCEPT ![p] = CloseOnExit(@, TRUE)]
                   /\ UNCHANGED txn
              ELSE /\ Goto(p, "x_commit", <<"Mutated">>)
                   /\ txn' = [txn EXCEPT ![p] =
                                IF out = "insert"
                                THEN [kind |-> "ins", table |-> "assignments", row |-> row]
                                ELSE NoTxn]
                   /\ UNCHANGED dbOpen
    /\ UNCHANGED <<config, store, req, loc, ldapOpen, contacted, result, pre, repeatOf>>

\* assign_db_generic, lines 166-168, and lines 283-284: commit, close, "ok".
GenericCommit(p) ==
    /\ pc[p] = "x_commit"
    /\ user_assignments' = Committed(user_assignments, "assignments", txn[p])
    /\ txn' = [txn EXCEPT ![p] = NoTxn]
    /\ dbOpen' = [dbOpen EXCEPT ![p] = CloseOnExit(@, FALSE)]
    /\ Return(p, 200, <<"Acknowledged">>)
    /\ UNCHANGED <<config, auth_user_groups, assignmentTable, member, req, loc,
                   ldapOpen, contacted, result, pre, repeatOf>>

\* ------------------------------------------------------- directory flow
\* Lines 252-257: search_ldap(identifier, limit=1) resolves the user's DN.
LdapFindUser(p) ==
    /\ pc[p] = "l_user"
    /\ contacted' = [contacted EXCEPT ![p] = @ \cup {"ldap"}]
    /\ ldapOpen' = [ldapOpen EXCEPT ![p] = CloseOnExit(@ + 1, FALSE)]
    /\ LET matches == search_ldap(req[p].identifier, 1)
       IN  IF matches = << >> \/ matches[1].dn = NULL
           THEN Return(p, 404, <<"Failed">>) /\ UNCHANGED loc
           ELSE /\ Goto(p, "l_group", <<"IdentifierResolved">>)
                /\ loc' = [loc EXCEPT ![p].user_dn = matches[1].dn]
    /\ UNCHANGED <<config, store, req, txn, dbOpen, result, pre, repeatOf>>

\* find_ldap_group_dn_by_name, lines 211-221: the first group entry whose cn is
\* the target.
find_ldap_group_dn_by_name(group_name) ==
    SelectSeq(ldap_groups, LAMBDA g : g.cn = group_name)

LdapFindGroup(p) ==
    /\ pc[p] = "l_group"
    /\ contacted' = [contacted EXCEPT ![p] = @ \cup {"ldap"}]
    /\ LET entries == find_ldap_group_dn_by_name(req[p].target)
       IN  /\ ldapOpen' = [ldapOpen EXCEPT ![p] = CloseOnExit(@ + 1, entries = << >>)]
           /\ IF entries = << >>
              THEN Return(p, 404, <<"Failed">>) /\ UNCHANGED loc
              ELSE /\ Goto(p, "l_modify", <<"TargetResolved">>)
                   /\ loc' = [loc EXCEPT ![p].group_dn = entries[1].entry_dn]
    /\ UNCHANGED <<config, store, req, txn, dbOpen, result, pre, repeatOf>>

\* The directory's answer to a modify of the group's member attribute: adding a
\* value that is present and deleting one that is absent are refused, and the
\* server may refuse any other modify as well (syntax, access, integrity).
ModifyMayRefuse(values, op, user_dn) ==
    IF op = "MODIFY_ADD" THEN user_dn \in values ELSE user_dn \notin values

\* modify_ldap_group_membership, lines 197-209: "assign" is MODIFY_ADD and every
\* other action MODIFY_DELETE; a refusal is HTTP 400.
LdapModify(p, accepted) ==
    /\ pc[p] = "l_modify"
    /\ contacted' = [contacted EXCEPT ![p] = @ \cup {"ldap"}]
    /\ LET op == IF req[p].action = "assign" THEN "MODIFY_ADD" ELSE "MODIFY_DELETE"
           g == loc[p].group_dn
           dn == loc[p].user_dn
           ok == accepted /\ ~ModifyMayRefuse(member[g], op, dn)
       IN  /\ ldapOpen' = [ldapOpen EXCEPT ![p] = CloseOnExit(@ + 1, ~ok)]
           /\ IF ok
              THEN /\ member' = [member EXCEPT ![g] =
                                   IF op = "MODIFY_ADD" THEN @ \cup {dn} ELSE @ \ {dn}]
                   /\ Return(p, 200, <<"Mutated", "Acknowledged">>)
              ELSE /\ Return(p, 400, <<"Failed">>)
                   /\ UNCHANGED member
    /\ UNCHANGED <<config, auth_user_groups, user_assignments, assignmentTable, req,
                   loc, txn, dbOpen, result, pre, repeatOf>>

\* ------------------------------------------------------- backend failures
\* Positions whose next round trip opens a relational connection, positions
\* inside assign_db_group / assign_db_generic that hold one, and positions whose
\* next round trip binds a directory session.
OpensDb == {"s_db", "conv", "g_user", "x_ensure", "x_user"}
HoldsDb == {"g_group", "g_check", "g_insert", "g_commit", "x_check", "x_insert", "x_commit"}
OpensLdap == {"s_ldap", "l_user", "l_group", "l_modify"}

\* The backend raises during the next round trip (connect or bind refused when
\* connected is FALSE, the statement or search failing otherwise): the finally
\* blocks run, the uncommitted statement is lost, the request ends in HTTP 500.
\* "BackendFault" in the stages tells this failure from the handler's own.
BackendFailure(p, connected) ==
    /\ pc[p] \in OpensDb \cup HoldsDb \cup OpensLdap
    /\ pc[p] \in HoldsDb => connected
    /\ contacted' = [contacted EXCEPT ![p] =
                       @ \cup (IF pc[p] \in OpensLdap THEN {"ldap"} ELSE {"db"})]
    /\ dbOpen' = [dbOpen EXCEPT ![p] =
                    IF pc[p] \in HoldsDb THEN CloseOnExit(@, TRUE)
                    ELSE IF pc[p] \in OpensDb /\ connected THEN CloseOnExit(@ + 1, TRUE)
                    ELSE @]
    /\ ldapOpen' = [ldapOpen EXCEPT ![p] =
                      IF pc[p] \in OpensLdap /\ connected THEN CloseOnExit(@ + 1, TRUE)
                      ELSE @]
    /\ txn' = [txn EXCEPT ![p] = NoTxn]
    /\ Return(p, 500, <<"BackendFault", "Failed">>)
    /\ UNCHANGED <<config, store, req, loc, result, pre, repeatOf>>

\* The response has been sent: the request's frame is gone.
Respond(p) ==
    /\ pc[p] = "done"
    /\ pc' = [pc EXCEPT ![p] = "idle"]
    /\ req' = [req EXCEPT ![p] = NoRequest]
    /\ loc' = [loc EXCEPT ![p] = NoLocals]
    /\ contacted' = [contacted EXCEPT ![p] = {}]
    /\ stages' = [stages EXCEPT ![p] = << >>]
    /\ status' = [status EXCEPT ![p] = 0]
    /\ result' = [result EXCEPT ![p] = << >>]
    /\ pre' = [pre EXCEPT ![p] = Stores]
    /\ repeatOf' = [repeatOf EXCEPT ![p] = 0]
    /\ UNCHANGED <<config, store, txn, conns>>

Next ==
    \E p \in {1} :
        \/ \E r \in SearchRequests : UserSearch(p, r)
        \/ SearchDb(p)
        \/ SearchLdap(p)
        \/ \E r \in AssignRequests : Idle(p) /\ UserAssign(p, r, 0)
        \/ RepeatAssign(p)
        \/ ConvertId(p)
        \/ GroupFindUser(p)
        \/ GroupFindGroup(p)
        \/ GroupStatement(p)
        \/ GroupInsert(p)
        \/ GroupCommit(p)
        \/ EnsureTable(p)
        \/ GenericFindUser(p)
        \/ GenericStatement(p)
        \/ GenericInsert(p)
        \/ GenericCommit(p)
        \/ LdapFindUser(p)
        \/ LdapFindGroup(p)
        \/ \E accepted \in BOOLEAN : LdapModify(p, accepted)
        \/ \E connected \in BOOLEAN : BackendFailure(p, connected)
        \/ Respond(p)

Spec == Init /\ [][Next]_vars

\* ------------------------------------------- two identical concurrent assigns
\* Both flags off or one of them: the relational flow.
InitConcurrent == Init /\ ~DirectoryMode

\* Request r arrives at p while the other handler is idle or handles the same r.
ConcurrentAssign(p, r) ==
    /\ Idle(p)
    /\ r.action = "assign"
    /\ \A o \in Procs \ {p} : req[o] \in {NoRequest, r}
    /\ UserAssign(p, r, 0)

NextConcurrent ==
    \E p \in Procs :
        \/ \E r \in AssignRequests : ConcurrentAssign(p, r)
        \/ ConvertId(p)
        \/ GroupFindUser(p)
        \/ GroupFindGroup(p)
        \/ GroupStatement(p)
        \/ GroupInsert(p)
        \/ GroupCommit(p)
        \/ EnsureTable(p)
        \/ GenericFindUser(p)
        \/ GenericStatement(p)
        \/ GenericInsert(p)
        \/ GenericCommit(p)

SpecConcurrent == InitConcurrent /\ [][NextConcurrent]_vars

\* ======================================================== the properties
\* What a property needs to say about a request, read from the request and the
\* tables and not from what the handler computed.
Relational == ~(LDAP_SERVER_AVAILABLE /\ LDAP_GROUP_FILTER)
IsAssign(p) == req[p].op = "assign"
IsSearch(p) == req[p].op = "search"
Finished(p) == pc[p] = "done"
Faulted(p) == \E i \in 1..Len(stages[p]) : stages[p][i] = "BackendFault"
Passed(p, stage) == \E i \in 1..Len(stages[p]) : stages[p][i] = stage
Count(p, stage) == Cardinality({i \in 1..Len(stages[p]) : stages[p][i] = stage})

\* The ids of the users an (identifier, identifier_type) of kind id or username names.
NamedUserIds(r) ==
    {auth_user[i].id : i \in
        {j \in 1..Len(auth_user) :
            \/ r.identifier_type = "id" /\ IsDecimal(r.identifier)
                                        /\ auth_user[j].id = IntOf(r.identifier)
            \/ r.identifier_type = "username" /\ auth_user[j].username = r.identifier}}

NamedGroupIds(r) ==
    {auth_group[i].id : i \in {j \in 1..Len(auth_group) : auth_group[j].name = r.target}}

\* The request names an existing user by id or username and, for a group
\* target, an existing group.
NamesExisting(r) ==
    /\ NamedUserIds(r) # {}
    /\ r.target_type = "group" => NamedGroupIds(r) # {}

\* The number of copies of the request's edge or triple in the stores st.
Copies(st, r) ==
    LET u == CHOOSE x \in NamedUserIds(r) : TRUE
    IN  IF r.target_type = "group"
        THEN st.groups[<<u, CHOOSE g \in NamedGroupIds(r) : TRUE>>]
        ELSE st.assignments[<<u, r.target_type, r.target>>]

\* C1: a user search is answered by exactly one backend, the directory if and
\* only if both flags are true and the relational store otherwise; the other
\* backend is never contacted during the search.
C1_SearchOneBackend ==
    \A p \in Procs :
        IsSearch(p) =>
            LET chosen == IF LDAP_SERVER_AVAILABLE /\ LDAP_GROUP_FILTER
                          THEN "ldap" ELSE "db"
            IN  /\ contacted[p] \subseteq {chosen}
                /\ Finished(p) => contacted[p] = {chosen}

\* A search answered by the relational store although the directory is available.
C1_Witness ==
    \E p \in Procs :
        /\ IsSearch(p) /\ Finished(p) /\ status[p] = 200
        /\ LDAP_SERVER_AVAILABLE /\ ~LDAP_GROUP_FILTER
        /\ contacted[p] = {"db"}
        /\ Len(result[p]) > 0

\* C2: an assign request whose action is neither assign nor remove, or whose
\* identifier or target is empty, fails with HTTP 400 before any backend is
\* contacted and changes no membership or assignment.
C2_InvalidRejectedUpFront ==
    \A p \in Procs :
        (/\ IsAssign(p)
         /\ \/ req[p].action \notin {"assign", "remove"}
            \/ req[p].identifier = ""
            \/ req[p].target = "")
        => /\ contacted[p] = {}
           /\ Stores = pre[p]
           /\ Finished(p) => status[p] = 400

\* C3: in relational mode an assign request with identifier_type = dn fails
\* with HTTP 400 and no row is inserted or deleted.
C3_DnRejectedInRelationalMode ==
    \A p \in Procs :
        (IsAssign(p) /\ Relational /\ req[p].identifier_type = "dn")
        => /\ Stores = pre[p]
           /\ loc[p].user_id = 0
           /\ Finished(p) => status[p] = 400

\* C4: in relational mode, when an "assign" naming an existing user and target
\* has succeeded and is performed once more, the second call succeeds too and
\* leaves memberships and assignments as the first call left them, with one
\* copy of the edge or triple.
C4_AssignTwiceIsAssignOnce ==
    \A p \in Procs :
        (/\ IsAssign(p) /\ Finished(p) /\ Relational
         /\ req[p].action = "assign"
         /\ NamesExisting(req[p])
         /\ repeatOf[p] = 200
         /\ ~Faulted(p))
        => /\ status[p] = 200
           /\ Stores = pre[p]
           /\ Copies(Stores, req[p]) = 1

\* The second of two identical group assigns has returned "ok".
C4_Witness ==
    \E p \in Procs :
        /\ IsAssign(p) /\ Finished(p) /\ Relational
        /\ req[p].action = "assign" /\ req[p].target_type = "group"
        /\ NamesExisting(req[p])
        /\ repeatOf[p] = 200 /\ status[p] = 200
        /\ Passed(p, "Mutated")
        /\ Copies(Stores, req[p]) = 1

\* C5: in relational mode a "remove" of a membership or assignment that does
\* not exist, for an existing user and (group targets) an existing group,
\* succeeds and leaves memberships and assignments unchanged.
C5_RemoveAbsentIsNoOp ==
    \A p \in Procs :
        (/\ IsAssign(p) /\ Finished(p) /\ Relational
         /\ req[p].action = "remove"
         /\ NamesExisting(req[p])
         /\ Copies(pre[p], req[p]) = 0
         /\ ~Faulted(p))
        => /\ status[p] = 200
           /\ Stores = pre[p]

\* A remove of an absent assignment has returned "ok" while the user holds
\* another assignment.
C5_Witness ==
    \E p \in Procs :
        /\ IsAssign(p) /\ Finished(p) /\ Relational
        /\ req[p].action = "remove" /\ req[p].target_type # "group"
        /\ NamesExisting(req[p])
        /\ Copies(pre[p], req[p]) = 0
        /\ status[p] = 200
        /\ \E row \in AssignRows : user_assignments[row] > 0

\* C6: two identical concurrent relational assigns of an absent membership or
\* assignment both complete without error and leave exactly one copy.
C6_ConcurrentAssignsBothSucceed ==
    (/\ \A p \in Procs : IsAssign(p) /\ Finished(p)
     /\ req[1] = req[2]
     /\ req[1].target # ""
     /\ NamesExisting(req[1]))
    => /\ \A p \in Procs : status[p] = 200
       /\ Copies(Stores, req[1]) = 1

\* The order of the stages of one assign call: the identifier is resolved, then
\* (group targets) the target, then the one mutation, then the acknowledgement.
StagesInOrder(p) ==
    LET core == SelectSeq(stages[p], LAMBDA x : x \notin {"Failed", "BackendFault"})
        full == IF req[p].target_type = "group"
                THEN <<"IdentifierResolved", "TargetResolved", "Mutated", "Acknowledged">>
                ELSE <<"IdentifierResolved", "Mutated", "Acknowledged">>
    IN  /\ Len(core) <= Len(full)
        /\ core = SubSeq(full, 1, Len(core))

\* C7: every assign call passes its stages in order, issues the mutation at
\* most once and only after the resolutions, returns "ok" only after the
\* mutation, and a call that fails leaves memberships and assignments unchanged.
C7_StagesInOrder ==
    \A p \in Procs :
        IsAssign(p) =>
            /\ StagesInOrder(p)
            /\ Count(p, "Mutated") <= 1
            /\ Finished(p) /\ status[p] = 200 =>
                   Passed(p, "Mutated") /\ Passed(p, "Acknowledged")
            /\ Finished(p) /\ status[p] # 200 =>
                   Passed(p, "Failed") /\ ~Passed(p, "Acknowledged") /\ Stores = pre[p]

\* C8: no connection or session opened by a request is open once the request
\* has finished, on whichever path it finished.
C8_ConnectionsReleased ==
    \A p \in Procs :
        /\ dbOpen[p] \in {0, 1}
        /\ ldapOpen[p] \in {0, 1}
        /\ pc[p] \in {"idle", "done"} => dbOpen[p] = 0 /\ ldapOpen[p] = 0

\* A request that raised HTTP 404 inside assign_db_group, its connection open.
C8_Witness ==
    \E p \in Procs :
        /\ IsAssign(p) /\ Finished(p) /\ status[p] = 404
        /\ Passed(p, "IdentifierResolved")
        /\ contacted[p] = {"db"}
        /\ dbOpen[p] = 0

\* C9: in directory mode an assign request whose target_type is not "group"
\* fails with HTTP 400 and performs no backend call.
C9_NonGroupRejectedInDirectoryMode ==
    \A p \in Procs :
        (/\ IsAssign(p)
         /\ LDAP_SERVER_AVAILABLE /\ LDAP_GROUP_FILTER
         /\ req[p].target_type # "group")
        => /\ Finished(p)
           /\ status[p] = 400
           /\ contacted[p] = {}
           /\ Stores = pre[p]

\* A study assignment turned down in directory mode.
C9_Witness ==
    \E p \in Procs :
        /\ IsAssign(p) /\ Finished(p)
        /\ LDAP_SERVER_AVAILABLE /\ LDAP_GROUP_FILTER
        /\ req[p].target_type = "study"
        /\ req[p].action = "assign" /\ req[p].identifier = "alice"
        /\ status[p] = 400

\* The DNs of the members of the allow-listed groups.
AllowedMembers ==
    UNION {member[ldap_groups[i].entry_dn] :
              i \in {j \in 1..Len(ldap_groups) : ldap_groups[j].cn \in LDAP_ALLOWED_GROUPS}}

\* C10: in directory mode every user a search returns is a member of at least
\* one allow-listed group.
C10_SearchReturnsAllowedMembersOnly ==
    \A p \in Procs :
        (/\ IsSearch(p) /\ Finished(p) /\ status[p] = 200
         /\ LDAP_SERVER_AVAILABLE /\ LDAP_GROUP_FILTER)
        => \A i \in 1..Len(result[p]) : result[p][i].dn \in AllowedMembers
====
